---- MODULE Spec2Model ----
(***************************************************************************)
(* A model of the daily to-do planner of oakvillechen/ToDoList.            *)
(*                                                                         *)
(* Three variants share the state below:                                   *)
(*   "production"  - src/src/app/page.tsx with NODE_ENV = production: the  *)
(*                   cloud planner, every mutation is an awaited call to   *)
(*                   the remote row store;                                 *)
(*   "development" - the same file with NODE_ENV = development: a mock     *)
(*                   user and localStorage key "dev-todos";                *)
(*   "local"       - src/unnamed/part_001: the local planner, key          *)
(*                   "todos-by-date-v3".                                   *)
(*                                                                         *)
(* An action is one invocation of a handler of the component, or one step  *)
(* of the remote store (Serve) or of a handler's continuation after its    *)
(* await (Respond).  The arguments a handler gets from its JSX binding     *)
(* (the id and the completed flag of a rendered task) are read from the    *)
(* collection as rendered; free inputs are drawn from small sets.          *)
(* updateTodo is reached through its one caller, the Save button, with the  *)
(* button's disabled attribute.  SpecDays runs the date helpers alone,      *)
(* SpecAuth the sign-in form of page.tsx and SpecReset the reset-password  *)
(* page of src/unnamed/part_000.                                           *)
(***************************************************************************)
EXTENDS Integers, Sequences, FiniteSets, TLC

VARIABLES
    mode,           \* which variant runs (fixed by Init)
    sessionUserId,  \* page.tsx:70   owner identifier or NULL
    todos,          \* page.tsx:79 / part_001:68   the in-memory collection
    input,          \* page.tsx:86   draft text
    notes,          \* page.tsx:87   draft notes
    selectedDate,   \* page.tsx:90
    authMessage,    \* page.tsx:76   the user-visible message
    editingId,      \* page.tsx:81   id of the task in edit mode, NoId if none
    filter,         \* page.tsx:89 / part_001:82
    backend,        \* rows of the remote table "todos"
    storage,        \* the value under the variant's localStorage key
    calls,          \* awaited backend calls, oldest first
    nextId,         \* next identifier the id generator hands out
    clock,          \* last reading of the wall clock
    nops,           \* handler invocations so far (bounded by MaxOps)
    loaded,         \* history: a load succeeded and no operation overlapped it
    removed,        \* history: the removes that have run to their end
    tg,             \* history: a double toggle under observation
    last,           \* history: the step taken last
    probe,          \* a call of a date helper: its arguments and its results
    crashed,        \* a render of the planner threw: the page is gone
    authMode,       \* page.tsx:72
    authUsername,   \* page.tsx:73
    authEmail,      \* page.tsx:74
    authPassword,   \* page.tsx:75
    authLoading,    \* page.tsx:77
    newPassword,    \* part_000:9    the reset-password page
    confirmPassword,\* part_000:10
    message,        \* part_000:11
    loading,        \* part_000:12
    error,          \* part_000:13
    recovery,       \* the identity service holds a session for the reset link
    checked         \* history: getSession() of part_000:17 has answered

\* The sign-in form of page.tsx and the state of the reset-password page.
authVars == <<authMode, authUsername, authEmail, authPassword, authLoading>>
resetVars == <<newPassword, confirmPassword, message, loading, error, recovery, checked>>

\* The state of the planner page, the number of handler invocations aside.
pageVarsOfHome == <<mode, sessionUserId, todos, input, notes, selectedDate, authMessage,
                    editingId, backend, storage, calls, nextId, clock,
                    loaded, removed, tg, filter, probe, crashed, authVars>>

vars == <<mode, sessionUserId, todos, input, notes, selectedDate, authMessage,
          editingId, backend, storage, calls, nextId, clock, nops,
          loaded, removed, tg, last, filter, probe, crashed, authVars, resetVars>>

\* The state of the page, without the probe of the date helpers.
pageVars == <<mode, sessionUserId, todos, input, notes, selectedDate, authMessage,
              editingId, backend, storage, calls, nextId, clock, nops,
              loaded, removed, tg, last, filter, crashed, authVars, resetVars>>

\* ---------------------------------------------------------------- bounds
MaxOps == 2
MaxCalls == 2

\* ------------------------------------------------------------- constants
NULL == "null"
NoId == 0                    \* editingId: null
Modes == {"production", "development", "local"}
Users == {"u1", "u2"}         \* owners of rows in the remote table
SessionUsers == Users          \* users who sign in on this page
DevUser == "dev-user-local"

\* Strings are sequences of characters so that trim() is computed.
NoNotes == <<NULL>>          \* notes: null (page.tsx:333)
Undefined == <<"undefined">> \* notes: undefined (part_001:106)
Empty == <<>>
Blank == <<" ">>
TextA == <<"a">>
PaddedA == <<" ", "a", " ">>
TextB == <<"b">>
PaddedB == <<"b", " ">>
NoteN == <<"n">>

\* Dates "YYYY-MM-DD" are <<year, month, day>>; string order is tuple order.
D1 == <<2026, 2, 5>>
D2 == <<2026, 2, 6>>
Today == D1
Dates == {D1, D2}

MsgSignIn == "Please sign in first to save tasks in the cloud."
MsgSaveFailed == "Could not save task. Try again."

DraftTexts == {Empty, Blank, PaddedA}
DraftNotes == {Empty, NoteN}
EditTexts == {TextB, PaddedB, Blank}
EditNotes == {Empty, NoteN}
EditPriorities == {"high"}

\* ------------------------------------------------------------- helpers
Range(s) == {s[i] : i \in DOMAIN s}
Ids(s) == {s[i].id : i \in DOMAIN s}

DateLess(a, b) ==
    \/ a[1] < b[1]
    \/ a[1] = b[1] /\ a[2] < b[2]
    \/ a[1] = b[1] /\ a[2] = b[2] /\ a[3] < b[3]

RECURSIVE TrimStart(_)
TrimStart(s) == IF s # <<>> /\ Head(s) = " " THEN TrimStart(Tail(s)) ELSE s

RECURSIVE TrimEnd(_)
TrimEnd(s) ==
    IF s # <<>> /\ s[Len(s)] = " " THEN TrimEnd(SubSeq(s, 1, Len(s) - 1)) ELSE s

\* String.prototype.trim
\* A draft taken as typed.
Trim_Nothing(s) == s

Trim(s) == TrimEnd(TrimStart(s))

\* notes.trim() || null
NotesOrNull(s) == IF Trim(s) = <<>> THEN NoNotes ELSE Trim(s)

\* selectedDate || getTodayISODate()
IsoDate == IF selectedDate = <<>> THEN Today ELSE selectedDate

\* todos.filter((t) => !t.completed)
\* The filter turned round.
WithoutCompleted_KeepsCompleted(s) == LET Keep(t) == t.completed IN SelectSeq(s, Keep)

WithoutCompleted(s) == LET Keep(t) == ~t.completed IN SelectSeq(s, Keep)

\* todos.filter((t) => t.completed).map((t) => t.id)
CompletedIds(s) == {s[i].id : i \in {j \in DOMAIN s : s[j].completed}}

\* todos.filter((t) => t.id !== id)
\* A filter that drops nothing.
WithoutId_KeepsAll(s, id) == s

WithoutId(s, id) == LET Keep(t) == t.id # id IN SelectSeq(s, Keep)

\* prev.map((t) => (t.id === id ? data : t))
ReplaceById(s, id, data) == [i \in DOMAIN s |-> IF s[i].id = id THEN data ELSE s[i]]

\* An update that also resets the completed flag.
Patched_ResetsCompleted(row, patch) ==
    [f \in DOMAIN row \cup DOMAIN patch |->
        IF f \in DOMAIN patch THEN patch[f]
        ELSE IF f = "completed" THEN FALSE
        ELSE row[f]]

\* { ...t, field: value } and the store's update(patch)
Patched(row, patch) ==
    [f \in DOMAIN row \cup DOMAIN patch |->
        IF f \in DOMAIN patch THEN patch[f] ELSE row[f]]

\* todos.map((t) => t.id === id ? { ...t, ...patch } : t)
PatchById(s, id, patch) ==
    [i \in DOMAIN s |-> IF s[i].id = id THEN Patched(s[i], patch) ELSE s[i]]

\* ------------------------------------------------------- calendar dates
\* The Date object behind addDays (page.tsx:41-49, part_001:39-47), in whole
\* days since 1970-01-01 of the local calendar; the time of day stays 0.
DaysInYear(y) ==
    IF y % 4 # 0 THEN 365
    ELSE IF y % 100 # 0 THEN 366
    ELSE IF y % 400 # 0 THEN 365
    ELSE 366

DayFromYear(y) ==
    365 * (y - 1970) + ((y - 1969) \div 4) - ((y - 1901) \div 100)
        + ((y - 1601) \div 400)

YearFromDay(day) ==
    CHOOSE y \in (1969 + (day \div 366))..(1971 + (day \div 365)) :
        DayFromYear(y) <= day /\ day < DayFromYear(y + 1)

\* Days of the year before the month with index m0 (0 = January).
DaysBeforeMonth(y, m0) ==
    LET leap == DaysInYear(y) - 365
        common == <<0, 31, 59, 90, 120, 151, 181, 212, 243, 273, 304, 334, 365>>
    IN  common[m0 + 1] + (IF m0 >= 2 THEN leap ELSE 0)

MonthFromDay(day) ==
    LET y == YearFromDay(day)
        within == day - DayFromYear(y)
    IN  CHOOSE m0 \in 0..11 :
            DaysBeforeMonth(y, m0) <= within /\ within < DaysBeforeMonth(y, m0 + 1)

DateFromDay(day) ==
    LET y == YearFromDay(day)
    IN  day - DayFromYear(y) - DaysBeforeMonth(y, MonthFromDay(day)) + 1

\* The day of year y, month index m0 in 0..11 and day-of-month dt, where dt
\* may lie outside the month.
MakeDay(y, m0, dt) == DayFromYear(y) + DaysBeforeMonth(y, m0) + dt - 1

\* new Date(y, monthIndex, d): a year of 0..99 is taken as 1900 + year.
NewDate(y, m0, d) == MakeDay(IF y \in 0..99 THEN 1900 + y ELSE y, m0, d)

\* `${year}-${month}-${day}` of a Date
FormatDate(day) == <<YearFromDay(day), MonthFromDay(day) + 1, DateFromDay(day)>>

\* An addDays that steps by weeks.
addDays_Weeks(base, offset) ==
    FormatDate(NewDate(base[1], base[2] - 1, base[3]) + 7 * offset)

\* addDays (page.tsx:41-49, part_001:39-47)
addDays(base, offset) ==
    LET y == base[1]
        m == base[2]
        d == base[3]
        date == NewDate(y, (IF m = 0 THEN 1 ELSE m) - 1, IF d = 0 THEN 1 ELSE d)
        moved == MakeDay(YearFromDay(date), MonthFromDay(date),
                         DateFromDay(date) + offset)
    IN  FormatDate(moved)

\* weekStrip (page.tsx:297, part_001:158), for the value of `today`
weekStrip(anchor) == [i \in 1..7 |-> addDays(anchor, i - 1)]

\* The dates and offsets the helpers are called with.
MaxOffset == 7
ProbeYears == {99, 2000, 2024, 2026, 2100}
ProbeMonths == {1, 2, 4, 12}
ProbeDays == 26..31
ProbeDates ==
    {dt \in ProbeYears \X ProbeMonths \X ProbeDays :
        dt[3] <= DaysBeforeMonth(dt[1], dt[2]) - DaysBeforeMonth(dt[1], dt[2] - 1)}

NoProbe == [base |-> <<>>, offset |-> 0, out |-> <<>>, strip |-> <<>>]

\* ------------------------------------------------------ local storage
NoItem == [tag |-> "absent", items |-> <<>>]
Malformed == [tag |-> "malformed", items |-> <<>>]

\* JSON.stringify drops a property whose value is undefined (part_001:106);
\* null (page.tsx:333) is kept.
StringifyItem(t) ==
    IF t.notes = Undefined
    THEN [f \in DOMAIN t \ {"notes"} |-> t[f]]
    ELSE t

\* A write that stores an empty array whatever the collection.
Stringify_Empty(s) == [tag |-> "array", items |-> <<>>]

Stringify(s) == [tag |-> "array", items |-> [i \in DOMAIN s |-> StringifyItem(s[i])]]

\* JSON.parse: a property missing from the text reads as undefined.
ParseItem(t) ==
    IF "notes" \in DOMAIN t THEN t
    ELSE [f \in DOMAIN t \cup {"notes"} |-> IF f = "notes" THEN Undefined ELSE t[f]]

Parse(v) == [i \in DOMAIN v.items |-> ParseItem(v.items[i])]

\* Well-formed JSON that is not an array (an object, null, a number).
OtherShape == [tag |-> "object", items |-> <<>>]

\* JSON.parse returns instead of throwing.
Parseable(v) == v.tag \in {"array", "object"}

\* The planner renders with todos.filter, for .. of todos and todos.some
\* (page.tsx:300, 306, 829; part_001:131, 137, 315): a parsed value that is
\* not an array makes the render throw.
RenderThrows(v) == Parseable(v) /\ v.tag # "array"

\* ------------------------------------------------------------ the rows
Row(id, user, date, text, completed, at, priority, nts) ==
    [id |-> id, user_id |-> user, date |-> date, text |-> text,
     completed |-> completed, created_at |-> at, priority |-> priority,
     notes |-> nts]

LocalTodo(id, text, completed, date, at, priority, nts) ==
    [id |-> id, text |-> text, completed |-> completed, date |-> date,
     createdAt |-> at, priority |-> priority, notes |-> nts]

R1 == Row(1, "u1", D1, TextA, FALSE, 1, "medium", NoNotes)
R2 == Row(2, "u1", D2, TextB, TRUE, 2, "high", NoteN)
R3 == Row(3, "u2", D1, TextA, FALSE, 3, "medium", NoNotes)
InitTables == {{}, {R1, R2, R3}}
FirstFreshId == 1 + Cardinality({R1, R2, R3})

V1 == Row(1, DevUser, D1, TextA, FALSE, 1, "medium", NoNotes)
V2 == Row(2, DevUser, D2, TextB, TRUE, 2, "high", NoteN)
DevStores == {NoItem, Malformed, OtherShape, Stringify(<<V2, V1>>)}

L1 == LocalTodo(1, TextA, FALSE, D1, 1, "medium", Undefined)
L2 == LocalTodo(2, TextB, TRUE, D2, 2, "high", NoteN)
LocalStores == {NoItem, Malformed, OtherShape, Stringify(<<L2, L1>>)}

\* ------------------------------------------------------- awaited calls
\* One awaited call of a handler: what it sent (req), what the handler's
\* closure holds across the await (id, ids, completed, prev), and the store's
\* answer (phase, res).  clean is history: no operation began since a load
\* was issued.
Call(kind, owner, id, ids, req, prev) ==
    [kind |-> kind, phase |-> "sent", owner |-> owner, id |-> id, ids |-> ids,
     req |-> req, res |-> <<>>, prev |-> prev, clean |-> FALSE]

NoReq == [none |-> TRUE]

Overlapped(cs) == [i \in DOMAIN cs |-> [cs[i] EXCEPT !.clean = FALSE]]

Without(cs, i) == SubSeq(cs, 1, i - 1) \o SubSeq(cs, i + 1, Len(cs))

\* ------------------------------------------------ history of a double toggle
NoTg == [id |-> NoId, orig |-> FALSE, n |-> 0]
VoidTg == [id |-> NoId, orig |-> FALSE, n |-> 3]

\* Any operation other than the observed toggles ends the observation.
TgOther == IF tg.n = 0 THEN tg ELSE VoidTg

TgToggle(id, completed, settled) ==
    IF tg.n = 0 /\ settled THEN [id |-> id, orig |-> completed, n |-> 1]
    ELSE IF tg.n = 1 /\ tg.id = id THEN [tg EXCEPT !.n = 2]
    ELSE VoidTg

\* ------------------------------------------------- handlers of page.tsx
Cloud == mode \in {"production", "development"}
\* The component is on the screen: no render has thrown.
Mounted == ~crashed
Budget == nops < MaxOps /\ nops' = nops + 1
Room == Len(calls) < MaxCalls

\* useEffect on [sessionUserId] (page.tsx:135-170), production branch: the
\* select is issued when the owner changes to a user.
LoadTodos(cs, owner) ==
    Append(cs, [Call("load", owner, NoId, {}, NoReq, <<>>) EXCEPT !.clean = (cs = <<>>)])

\* supabase.auth.onAuthStateChange listener (page.tsx:116-127), with the load
\* effect its setSessionUserId triggers.
AuthStateChange(s) ==
    /\ mode = "production"
    /\ Mounted /\ Budget
    /\ s # sessionUserId \/ s = NULL
    /\ sessionUserId' = s
    /\ IF s = NULL
       THEN /\ todos' = <<>>
            /\ calls' = Overlapped(calls)
       ELSE /\ Room
            /\ todos' = todos
            /\ calls' = LoadTodos(Overlapped(calls), s)
    /\ loaded' = FALSE
    /\ tg' = TgOther
    /\ UNCHANGED <<probe, crashed, authVars, resetVars, filter, mode, input, notes, selectedDate, authMessage, editingId,
                   backend, storage, nextId, clock, removed>>

\* handleLogout (page.tsx:254-266)
handleLogout ==
    /\ Cloud
    /\ Mounted /\ Budget
    /\ IF mode = "development"
       THEN /\ sessionUserId' = NULL
            /\ todos' = <<>>
            /\ calls' = calls
       ELSE /\ Room
            /\ calls' = Append(Overlapped(calls),
                               Call("signOut", sessionUserId, NoId, {}, NoReq, <<>>))
            /\ UNCHANGED <<sessionUserId, todos>>
    /\ loaded' = FALSE
    /\ tg' = TgOther
    /\ UNCHANGED <<probe, crashed, authVars, resetVars, filter, mode, input, notes, selectedDate, authMessage, editingId,
                   backend, storage, nextId, clock, removed>>

\* onChange of the draft text, the draft notes and the date picker
\* (page.tsx:748-750, 760, 795; part_001:205-207, 247, 282)
setInput(v) ==
    /\ Mounted /\ Budget
    /\ v # input
    /\ input' = v
    /\ UNCHANGED <<probe, crashed, authVars, resetVars, filter, mode, sessionUserId, todos, notes, selectedDate, authMessage,
                   editingId, backend, storage, calls, nextId, clock, loaded,
                   removed, tg>>

setNotes(v) ==
    /\ Mounted /\ Budget
    /\ v # notes
    /\ notes' = v
    /\ UNCHANGED <<probe, crashed, authVars, resetVars, filter, mode, sessionUserId, todos, input, selectedDate, authMessage,
                   editingId, backend, storage, calls, nextId, clock, loaded,
                   removed, tg>>

setSelectedDate(v) ==
    /\ Mounted /\ Budget
    /\ selectedDate' = (IF v = <<>> THEN Today ELSE v)
    /\ selectedDate' # selectedDate
    /\ UNCHANGED <<probe, crashed, authVars, resetVars, filter, mode, sessionUserId, todos, input, notes, authMessage,
                   editingId, backend, storage, calls, nextId, clock, loaded,
                   removed, tg>>

\* An add that does not ask for the owner.
NoSession_Skipped == FALSE

\* !sessionUserId (page.tsx:317)
NoSession == sessionUserId = NULL

\* addTodo (page.tsx:316-369)
addTodo ==
    /\ Cloud
    /\ Mounted /\ Budget
    /\ IF NoSession
       THEN /\ authMessage' = MsgSignIn
            /\ UNCHANGED <<todos, input, notes, storage, calls, nextId, clock, loaded, tg>>
       ELSE IF Trim(input) = <<>>
       THEN UNCHANGED <<todos, input, notes, storage, calls, nextId, clock,
                        authMessage, loaded, tg>>
       ELSE IF mode = "development"
       THEN \E now \in {clock, clock + 1} :
              LET newTodo == Row(nextId, sessionUserId, IsoDate, Trim(input),
                                 FALSE, now, "medium", NotesOrNull(notes))
                  updated == <<newTodo>> \o todos
              IN  /\ todos' = updated
                  /\ storage' = Stringify(updated)
                  /\ input' = Empty
                  /\ notes' = Empty
                  /\ nextId' = nextId + 1
                  /\ clock' = now
                  /\ tg' = TgOther
                  /\ UNCHANGED <<calls, authMessage, loaded>>
       ELSE /\ Room
            /\ calls' = Append(Overlapped(calls),
                   Call("add", sessionUserId, NoId, {},
                        [user_id |-> sessionUserId, text |-> Trim(input),
                         date |-> IsoDate, completed |-> FALSE,
                         priority |-> "medium", notes |-> NotesOrNull(notes)],
                        <<>>))
            /\ tg' = TgOther
            /\ UNCHANGED <<todos, input, notes, storage, nextId, clock,
                           authMessage, loaded>>
    /\ UNCHANGED <<probe, crashed, authVars, resetVars, filter, mode, sessionUserId, selectedDate, editingId, backend, removed>>

\* The row of the store with this id, as memory and the store agree on it.
Settled(t) ==
    /\ calls = <<>>
    /\ mode = "production" => loaded /\ t \in backend

\* toggleTodo (page.tsx:371-396), called as toggleTodo(todo.id, todo.completed)
\* from the rendered task (page.tsx:951)
toggleTodo(i) ==
    /\ Cloud
    /\ Mounted /\ Budget
    /\ i \in DOMAIN todos
    /\ todos[i].id # editingId
    /\ LET id == todos[i].id
           completed == todos[i].completed
       IN  /\ tg' = TgToggle(id, completed, Settled(todos[i]))
           /\ IF mode = "development"
              THEN LET updated == PatchById(todos, id, [completed |-> ~completed])
                   IN  /\ todos' = updated
                       /\ storage' = Stringify(updated)
                       /\ calls' = calls
              ELSE /\ Room
                   /\ calls' = Append(Overlapped(calls),
                          Call("toggle", sessionUserId, id, {},
                               [completed |-> ~completed], <<>>))
                   /\ UNCHANGED <<todos, storage>>
    /\ UNCHANGED <<probe, crashed, authVars, resetVars, filter, mode, sessionUserId, input, notes, selectedDate, authMessage,
                   editingId, backend, nextId, clock, loaded, removed>>

\* deleteTodo (page.tsx:398-415)
deleteTodo(i) ==
    /\ Cloud
    /\ Mounted /\ Budget
    /\ i \in DOMAIN todos
    /\ todos[i].id # editingId
    /\ LET id == todos[i].id
           prev == todos
           updated == WithoutId(todos, id)
       IN  /\ todos' = updated
           /\ IF mode = "development"
              THEN /\ storage' = Stringify(updated)
                   /\ calls' = calls
                   /\ removed' = removed \cup {[id |-> id, ok |-> TRUE, own |-> TRUE]}
              ELSE /\ Room
                   /\ calls' = Append(Overlapped(calls),
                          Call("remove", sessionUserId, id, {}, NoReq, prev))
                   /\ UNCHANGED <<storage, removed>>
    /\ tg' = TgOther
    /\ UNCHANGED <<probe, crashed, authVars, resetVars, filter, mode, sessionUserId, input, notes, selectedDate, authMessage,
                   editingId, backend, nextId, clock, loaded>>

\* startEdit and cancelEdit (page.tsx:473-485)
startEdit(i) ==
    /\ Cloud
    /\ Mounted /\ Budget
    /\ i \in DOMAIN todos
    /\ todos[i].id # editingId
    /\ editingId' = todos[i].id
    /\ UNCHANGED <<probe, crashed, authVars, resetVars, filter, mode, sessionUserId, todos, input, notes, selectedDate,
                   authMessage, backend, storage, calls, nextId, clock, loaded,
                   removed, tg>>

cancelEdit ==
    /\ Cloud
    /\ Mounted /\ Budget
    /\ editingId # NoId
    /\ editingId' = NoId
    /\ UNCHANGED <<probe, crashed, authVars, resetVars, filter, mode, sessionUserId, todos, input, notes, selectedDate,
                   authMessage, backend, storage, calls, nextId, clock, loaded,
                   removed, tg>>

\* updateTodo (page.tsx:417-444), called from the Save button of the task in
\* edit mode (page.tsx:932)
updateTodo(i, text, nts, priority) ==
    /\ Cloud
    /\ Mounted /\ Budget
    /\ i \in DOMAIN todos
    /\ todos[i].id = editingId
    /\ LET id == todos[i].id
           patch == [text |-> text, notes |-> NotesOrNull(nts), priority |-> priority]
       IN  IF mode = "development"
           THEN LET updated == PatchById(todos, id, patch)
                IN  /\ todos' = updated
                    /\ storage' = Stringify(updated)
                    /\ editingId' = NoId
                    /\ calls' = calls
           ELSE /\ Room
                /\ calls' = Append(Overlapped(calls),
                       Call("edit", sessionUserId, id, {}, patch, <<>>))
                /\ UNCHANGED <<todos, storage, editingId>>
    /\ tg' = TgOther
    /\ UNCHANGED <<probe, crashed, authVars, resetVars, filter, mode, sessionUserId, input, notes, selectedDate, authMessage,
                   backend, nextId, clock, loaded, removed>>

\* A Save button that is never disabled.
SaveDisabled_Never(text) == FALSE

\* disabled={!editText.trim()} of the Save button (page.tsx:934)
SaveDisabled(text) == Trim(text) = <<>>

\* A click on the Save button of the task in edit mode (page.tsx:931-937),
\* the only caller of updateTodo: a disabled button does not call it.
clickSave(i, text, nts, priority) ==
    IF SaveDisabled(text)
    THEN /\ Cloud
         /\ Mounted /\ Budget
         /\ i \in DOMAIN todos
         /\ todos[i].id = editingId
         /\ UNCHANGED <<probe, crashed, authVars, resetVars, filter, mode, sessionUserId, todos, input, notes,
                        selectedDate, authMessage, editingId, backend, storage,
                        calls, nextId, clock, loaded, removed, tg>>
    ELSE updateTodo(i, text, nts, priority)

\* moveTodo (page.tsx:446-471), called from the task's date picker
\* (page.tsx:1020)
moveTodo(i, newDate) ==
    /\ Cloud
    /\ Mounted /\ Budget
    /\ i \in DOMAIN todos
    /\ todos[i].id # editingId
    /\ newDate # todos[i].date
    /\ LET id == todos[i].id
       IN  IF mode = "development"
           THEN LET updated == PatchById(todos, id, [date |-> newDate])
                IN  /\ todos' = updated
                    /\ storage' = Stringify(updated)
                    /\ calls' = calls
           ELSE /\ Room
                /\ calls' = Append(Overlapped(calls),
                       Call("move", sessionUserId, id, {}, [date |-> newDate], <<>>))
                /\ UNCHANGED <<todos, storage>>
    /\ tg' = TgOther
    /\ UNCHANGED <<probe, crashed, authVars, resetVars, filter, mode, sessionUserId, input, notes, selectedDate, authMessage,
                   editingId, backend, nextId, clock, loaded, removed>>

\* clearCompleted (page.tsx:487-509)
clearCompleted ==
    /\ Cloud
    /\ Mounted /\ Budget
    /\ LET completedIds == CompletedIds(todos)
           prev == todos
           updated == WithoutCompleted(todos)
       IN  IF completedIds = {}
           THEN UNCHANGED <<todos, storage, calls>>
           ELSE /\ todos' = updated
                /\ IF mode = "development"
                   THEN /\ storage' = Stringify(updated)
                        /\ calls' = calls
                   ELSE /\ Room
                        /\ calls' = Append(Overlapped(calls),
                               Call("clear", sessionUserId, NoId, completedIds,
                                    NoReq, prev))
                        /\ storage' = storage
    /\ tg' = TgOther
    /\ UNCHANGED <<probe, crashed, authVars, resetVars, filter, mode, sessionUserId, input, notes, selectedDate, authMessage,
                   editingId, backend, nextId, clock, loaded, removed>>

\* ------------------------------------------------- handlers of part_001
Local == mode = "local"

\* addTodo (part_001:92-112) and the save effect (part_001:87-90)
addTodoLocal ==
    /\ Local
    /\ Mounted /\ Budget
    /\ IF Trim(input) = <<>>
       THEN UNCHANGED <<todos, input, notes, storage, clock, removed>>
       ELSE \E now \in {clock, clock + 1} :
              LET updated == <<LocalTodo(now, Trim(input), FALSE, IsoDate, now,
                                         "medium",
                                         IF Trim(notes) = <<>> THEN Undefined
                                                               ELSE Trim(notes))>>
                             \o todos
              IN  /\ todos' = updated
                  /\ storage' = Stringify(updated)
                  /\ input' = Empty
                  /\ notes' = Empty
                  /\ clock' = now
                  /\ removed' = {r \in removed : r.id # now}
    /\ tg' = TgOther
    /\ UNCHANGED <<probe, crashed, authVars, resetVars, filter, mode, sessionUserId, selectedDate, authMessage, editingId,
                   backend, calls, nextId, loaded>>

\* toggleTodo (part_001:114-120) and the save effect
toggleTodoLocal(i) ==
    /\ Local
    /\ Mounted /\ Budget
    /\ i \in DOMAIN todos
    /\ LET id == todos[i].id
           updated == [j \in DOMAIN todos |->
                          IF todos[j].id = id
                          THEN [todos[j] EXCEPT !.completed = ~todos[j].completed]
                          ELSE todos[j]]
       IN  /\ todos' = updated
           /\ storage' = Stringify(updated)
           /\ tg' = TgToggle(id, todos[i].completed,
                             Cardinality({j \in DOMAIN todos : todos[j].id = id}) = 1)
    /\ UNCHANGED <<probe, crashed, authVars, resetVars, filter, mode, sessionUserId, input, notes, selectedDate, authMessage,
                   editingId, backend, calls, nextId, clock, loaded, removed>>

\* deleteTodo (part_001:122-124) and the save effect
deleteTodoLocal(i) ==
    /\ Local
    /\ Mounted /\ Budget
    /\ i \in DOMAIN todos
    /\ LET updated == WithoutId(todos, todos[i].id)
       IN  /\ todos' = updated
           /\ storage' = Stringify(updated)
    /\ removed' = removed \cup {[id |-> todos[i].id, ok |-> TRUE, own |-> TRUE]}
    /\ tg' = TgOther
    /\ UNCHANGED <<probe, crashed, authVars, resetVars, filter, mode, sessionUserId, input, notes, selectedDate, authMessage,
                   editingId, backend, calls, nextId, clock, loaded>>

\* clearCompleted (part_001:126-128) and the save effect
clearCompletedLocal ==
    /\ Local
    /\ Mounted /\ Budget
    /\ todos' = WithoutCompleted(todos)
    /\ storage' = Stringify(WithoutCompleted(todos))
    /\ tg' = TgOther
    /\ UNCHANGED <<probe, crashed, authVars, resetVars, filter, mode, sessionUserId, input, notes, selectedDate, authMessage,
                   editingId, backend, calls, nextId, clock, loaded, removed>>

\* ------------------------------------------------------- derived views
\* setFilter from the filter buttons (page.tsx:806, part_001:292)
Filters == {"all", "active", "completed"}

setFilter(v) ==
    /\ Mounted /\ Budget
    /\ v # filter
    /\ filter' = v
    /\ UNCHANGED <<probe, crashed, authVars, resetVars, mode, sessionUserId, todos, input, notes, selectedDate,
                   authMessage, editingId, backend, storage, calls, nextId,
                   clock, loaded, removed, tg>>

\* A count that looks at the date only.
remainingCount_OfDate ==
    LET OfDate(t) == t.date = selectedDate IN Len(SelectSeq(todos, OfDate))

\* remainingCount (page.tsx:299-302, part_001:130-133)
remainingCount ==
    LET Open(t) == t.date = selectedDate /\ ~t.completed
    IN  Len(SelectSeq(todos, Open))

\* The keys of the Map of groupedByDate, in insertion order.
RECURSIVE MapKeys(_)
MapKeys(s) ==
    IF s = <<>> THEN <<>>
    ELSE LET before == MapKeys(SubSeq(s, 1, Len(s) - 1))
             key == s[Len(s)].date
         IN  IF key \in Range(before) THEN before ELSE Append(before, key)

\* A group that takes every task.
MapGet_Everything(s, key) == s

\* map.get(key) once the loop is over: the tasks pushed under the key
MapGet(s, key) == LET Under(t) == t.date = key IN SelectSeq(s, Under)

\* Array.from(map.entries())
MapEntries(s) == [i \in DOMAIN MapKeys(s) |-> <<MapKeys(s)[i], MapGet(s, MapKeys(s)[i])>>]

\* The comparator of the date keys: ascending in page.tsx:312, descending in
\* part_001:143.
CompareKeys(a, b) ==
    IF mode = "local"
    THEN (IF DateLess(a, b) THEN 1 ELSE -1)
    ELSE (IF DateLess(a, b) THEN -1 ELSE 1)

\* Array.prototype.sort as an insertion sort: each element goes before the
\* first one the comparator puts it in front of.
RECURSIVE InsertEntry(_, _)
InsertEntry(e, s) ==
    IF s = <<>> THEN <<e>>
    ELSE IF CompareKeys(e[1], Head(s)[1]) < 0 THEN <<e>> \o s
    ELSE <<Head(s)>> \o InsertEntry(e, Tail(s))

RECURSIVE SortEntries(_)
SortEntries(s) ==
    IF s = <<>> THEN <<>>
    ELSE InsertEntry(s[Len(s)], SortEntries(SubSeq(s, 1, Len(s) - 1)))

\* groupedByDate (page.tsx:304-313, part_001:135-144)
groupedByDate == SortEntries(MapEntries(todos))

\* created_at of a row, createdAt of a task of the local planner
CreatedAt(t) == IF mode = "local" THEN t.createdAt ELSE t.created_at

\* (a, b) => a.created_at < b.created_at ? 1 : -1 (page.tsx:889-891,
\* part_001:370-372)
CompareItems(a, b) == IF CreatedAt(a) < CreatedAt(b) THEN 1 ELSE -1

RECURSIVE InsertItem(_, _)
InsertItem(t, s) ==
    IF s = <<>> THEN <<t>>
    ELSE IF CompareItems(t, Head(s)) < 0 THEN <<t>> \o s
    ELSE <<Head(s)>> \o InsertItem(t, Tail(s))

RECURSIVE SortItems(_)
SortItems(s) ==
    IF s = <<>> THEN <<>>
    ELSE InsertItem(s[Len(s)], SortItems(SubSeq(s, 1, Len(s) - 1)))

\* The predicate of items.filter(...) (page.tsx:884-888)
PassesFilter(t) ==
    IF filter = "active" THEN ~t.completed
    ELSE IF filter = "completed" THEN t.completed
    ELSE TRUE

\* The tasks listed in a date card: items.slice().filter(...).sort(...) in
\* page.tsx:882-891, items.slice().sort(...) in part_001:368-372.
shownItems(items) ==
    IF mode = "local" THEN SortItems(items)
    ELSE SortItems(SelectSeq(items, PassesFilter))

\* ------------------------------------------------------ the remote store
\* A row sorts before another: order("date", desc), order("created_at", desc)
\* (page.tsx:158-159)
RowBefore(r, q) ==
    \/ DateLess(q.date, r.date)
    \/ r.date = q.date /\ q.created_at < r.created_at

RECURSIVE Ordered(_)
Ordered(S) ==
    IF S = {} THEN <<>>
    ELSE LET first == CHOOSE r \in S : \A q \in S \ {r} : RowBefore(r, q)
         IN  <<first>> \o Ordered(S \ {first})

\* The rows a caller may see or change are its own.
Visible(owner) == {r \in backend : r.user_id = owner}

\* select(...).order(...).order(...) (page.tsx:155-159)
SelectRows(owner) == Ordered(Visible(owner))

\* insert(row).select(...).single() (page.tsx:347-358): the store assigns id
\* and created_at.
InsertedRow(req) == Patched(req, [id |-> nextId, created_at |-> clock + 1])

\* delete().eq("id", id) (page.tsx:410) and delete().in("id", ids)
\* (page.tsx:501-504)
AfterDelete(owner, ids) == {r \in backend : ~(r.user_id = owner /\ r.id \in ids)}

\* ---------------------------------------------------------------- Init
\* useState initialisers of part_001:68-77: the stored array, or [].
\* A parsed value of another shape is returned as it is; it has no items, and
\* the render that follows throws (RenderThrows).
InitialTodosLocal(v) == IF Parseable(v) THEN Parse(v) ELSE <<>>

\* loadTodos in development (page.tsx:141-152): setTodos only on a parse.
LoadedDev(v, old) == IF Parseable(v) THEN Parse(v) ELSE old

InitDrafts == {Empty, PaddedA}

\* useState initial values of the sign-in form (page.tsx:72-77)
AuthFormEmpty ==
    /\ authMode = "login"
    /\ authUsername = Empty
    /\ authEmail = Empty
    /\ authPassword = Empty
    /\ authLoading = FALSE

\* The reset-password page is not open.
ResetPageClosed ==
    /\ newPassword = Empty
    /\ confirmPassword = Empty
    /\ message = NULL
    /\ loading = FALSE
    /\ error = NULL
    /\ recovery = FALSE
    /\ checked = FALSE

Init ==
    /\ mode \in Modes
    /\ input \in InitDrafts
    /\ notes = Empty
    /\ selectedDate = Today
    /\ authMessage = NULL
    /\ editingId = NoId
    /\ calls = <<>>
    /\ nops = 0
    /\ removed = {}
    /\ tg = NoTg
    /\ last = <<"init">>
    /\ filter = "all"
    /\ probe = NoProbe
    /\ AuthFormEmpty
    /\ ResetPageClosed
    /\ \/ /\ mode = "production"
          /\ backend \in InitTables
          /\ storage = NoItem
          /\ crashed = FALSE
          /\ \/ /\ sessionUserId = NULL
                /\ todos = <<>>
                /\ loaded = FALSE
             \/ /\ sessionUserId = "u1"
                /\ todos = Ordered({r \in backend : r.user_id = "u1"})
                /\ loaded = TRUE
          /\ nextId = FirstFreshId
          /\ clock = FirstFreshId - 1
       \/ /\ mode = "development"
          /\ backend = {}
          /\ loaded = FALSE
          /\ storage \in DevStores
          /\ sessionUserId = DevUser
          /\ todos = LoadedDev(storage, <<>>)
          /\ crashed = RenderThrows(storage)
          /\ nextId = FirstFreshId
          /\ clock = FirstFreshId - 1
       \/ /\ mode = "local"
          /\ backend = {}
          /\ loaded = FALSE
          /\ \E v \in LocalStores :
                /\ todos = InitialTodosLocal(v)
                /\ crashed = RenderThrows(v)
                /\ storage = (IF RenderThrows(v) THEN v
                               ELSE Stringify(InitialTodosLocal(v)))
                /\ clock = FirstFreshId - 1
          /\ sessionUserId = NULL
          /\ nextId = FirstFreshId

\* The store handles one call that is on its way.  It may refuse any call;
\* update(...).eq("id", id).select().single() (page.tsx:383-388, 430-435,
\* 458-463) also fails when no row matches.
Serve(i, fail) ==
    /\ mode = "production"
    /\ i \in DOMAIN calls
    /\ calls[i].phase = "sent"
    /\ LET c == calls[i]
           target == {r \in Visible(c.owner) : r.id = c.id}
           isUpdate == c.kind \in {"toggle", "edit", "move"}
           refused == fail \/ (isUpdate /\ target = {})
           answer(res) == [calls EXCEPT ![i].phase = "ok", ![i].res = res]
       IN  IF refused
           THEN /\ calls' = [calls EXCEPT ![i].phase = "error"]
                /\ tg' = (IF c.kind = "toggle" THEN TgOther ELSE tg)
                /\ UNCHANGED <<backend, nextId, clock>>
           ELSE /\ tg' = tg
                /\ CASE c.kind = "load" ->
                            /\ calls' = answer(SelectRows(c.owner))
                            /\ UNCHANGED <<backend, nextId, clock>>
                     [] c.kind = "add" ->
                            /\ calls' = answer(InsertedRow(c.req))
                            /\ backend' = backend \cup {InsertedRow(c.req)}
                            /\ nextId' = nextId + 1
                            /\ clock' = clock + 1
                     [] isUpdate ->
                            LET old == CHOOSE r \in target : TRUE
                                new == Patched(old, c.req)
                            IN  /\ calls' = answer(new)
                                /\ backend' = (backend \ {old}) \cup {new}
                                /\ UNCHANGED <<nextId, clock>>
                     [] c.kind = "remove" ->
                            /\ calls' = answer(<<>>)
                            /\ backend' = AfterDelete(c.owner, {c.id})
                            /\ UNCHANGED <<nextId, clock>>
                     [] c.kind = "clear" ->
                            /\ calls' = answer(<<>>)
                            /\ backend' = AfterDelete(c.owner, c.ids)
                            /\ UNCHANGED <<nextId, clock>>
                     [] c.kind = "signOut" ->
                            /\ calls' = answer(<<>>)
                            /\ UNCHANGED <<backend, nextId, clock>>
    /\ UNCHANGED <<probe, crashed, authVars, resetVars, filter, mode, sessionUserId, todos, input, notes, selectedDate,
                   authMessage, editingId, storage, nops, loaded, removed>>

\* ----------------------------------- the handlers' code after their await
\* loadTodos (page.tsx:161-166)
AfterLoad(c) ==
    /\ IF c.phase = "ok"
       THEN todos' = c.res /\ loaded' = c.clean
       ELSE UNCHANGED <<todos, loaded>>
    /\ UNCHANGED <<input, notes, authMessage, editingId, removed, sessionUserId>>

\* The new row put at the end.
AfterAdd_Appends(c) ==
    /\ IF c.phase = "ok"
       THEN /\ todos' = todos \o <<c.res>>
            /\ input' = Empty
            /\ notes' = Empty
            /\ authMessage' = authMessage
       ELSE /\ authMessage' = MsgSaveFailed
            /\ UNCHANGED <<todos, input, notes>>
    /\ UNCHANGED <<editingId, removed, sessionUserId, loaded>>

\* addTodo (page.tsx:360-368)
AfterAdd(c) ==
    /\ IF c.phase = "ok"
       THEN /\ todos' = <<c.res>> \o todos
            /\ input' = Empty
            /\ notes' = Empty
            /\ authMessage' = authMessage
       ELSE /\ authMessage' = MsgSaveFailed
            /\ UNCHANGED <<todos, input, notes>>
    /\ UNCHANGED <<editingId, removed, sessionUserId, loaded>>

\* toggleTodo (page.tsx:390-395) and moveTodo (page.tsx:465-470)
AfterUpdate(c) ==
    /\ IF c.phase = "ok"
       THEN todos' = ReplaceById(todos, c.id, c.res)
       ELSE todos' = todos
    /\ UNCHANGED <<input, notes, authMessage, editingId, removed, sessionUserId, loaded>>

\* A successful edit that stays in edit mode.
AfterEdit_StaysInEdit(c) ==
    /\ IF c.phase = "ok"
       THEN /\ todos' = ReplaceById(todos, c.id, c.res)
            /\ editingId' = editingId
       ELSE UNCHANGED <<todos, editingId>>
    /\ UNCHANGED <<input, notes, authMessage, removed, sessionUserId, loaded>>

\* updateTodo (page.tsx:437-443)
AfterEdit(c) ==
    /\ IF c.phase = "ok"
       THEN /\ todos' = ReplaceById(todos, c.id, c.res)
            /\ editingId' = NoId
       ELSE UNCHANGED <<todos, editingId>>
    /\ UNCHANGED <<input, notes, authMessage, removed, sessionUserId, loaded>>

\* deleteTodo (page.tsx:411-414)
AfterRemove(c) ==
    /\ IF c.phase = "ok" THEN todos' = todos ELSE todos' = c.prev
    /\ removed' = removed \cup
          {[id |-> c.id, ok |-> c.phase = "ok",
            own |-> \A t \in Range(c.prev) : t.id = c.id => t.user_id = c.owner]}
    /\ UNCHANGED <<input, notes, authMessage, editingId, sessionUserId, loaded>>

\* A failed bulk delete that is not rolled back.
AfterClear_NoRollback(c) ==
    /\ todos' = todos
    /\ UNCHANGED <<input, notes, authMessage, editingId, removed, sessionUserId, loaded>>

\* clearCompleted (page.tsx:505-508)
AfterClear(c) ==
    /\ IF c.phase = "ok" THEN todos' = todos ELSE todos' = c.prev
    /\ UNCHANGED <<input, notes, authMessage, editingId, removed, sessionUserId, loaded>>

\* A log-out that keeps the collection.
AfterSignOut_KeepsTodos(c) ==
    /\ todos' = todos
    /\ UNCHANGED <<input, notes, authMessage, editingId, removed, sessionUserId, loaded>>

\* handleLogout (page.tsx:264-265): the result of signOut() is not read.
AfterSignOut(c) ==
    /\ todos' = <<>>
    /\ UNCHANGED <<input, notes, authMessage, editingId, removed, sessionUserId, loaded>>

Respond(i) ==
    /\ mode = "production"
    /\ i \in DOMAIN calls
    /\ calls[i].phase # "sent"
    /\ calls' = Without(calls, i)
    /\ LET c == calls[i]
       IN  CASE c.kind = "load" -> AfterLoad(c)
             [] c.kind = "add" -> AfterAdd(c)
             [] c.kind \in {"toggle", "move"} -> AfterUpdate(c)
             [] c.kind = "edit" -> AfterEdit(c)
             [] c.kind = "remove" -> AfterRemove(c)
             [] c.kind = "clear" -> AfterClear(c)
             [] c.kind = "signOut" -> AfterSignOut(c)
    /\ UNCHANGED <<probe, crashed, authVars, resetVars, filter, mode, selectedDate, backend, storage, nextId, clock, nops, tg>>

\* ------------------------------------------------------------- reload
\* The page is loaded again: the component is constructed anew and its mount
\* effects run; continuations of outstanding calls are gone.
Reload ==
    /\ Budget
    /\ input' = Empty
    /\ notes' = Empty
    /\ selectedDate' = Today
    /\ authMessage' = NULL
    /\ editingId' = NoId
    /\ calls' = <<>>
    /\ loaded' = FALSE
    /\ tg' = TgOther
    /\ CASE mode = "production" ->
                /\ sessionUserId' = NULL
                /\ todos' = <<>>
                /\ storage' = storage
                /\ crashed' = FALSE
         [] mode = "development" ->
                /\ sessionUserId' = DevUser
                /\ todos' = LoadedDev(storage, <<>>)
                /\ storage' = storage
                /\ crashed' = RenderThrows(storage)
         [] mode = "local" ->
                /\ sessionUserId' = sessionUserId
                /\ todos' = InitialTodosLocal(storage)
                /\ crashed' = RenderThrows(storage)
                /\ storage' = (IF RenderThrows(storage) THEN storage
                                ELSE Stringify(InitialTodosLocal(storage)))
    /\ filter' = "all"
    /\ UNCHANGED <<probe, authVars, resetVars, mode, backend, nextId, clock, removed>>

\* --------------------------------------------------------------- Next
Next ==
    \/ (\E s \in SessionUsers \cup {NULL} : AuthStateChange(s)) /\ last' = <<"authStateChange">>
    \/ handleLogout /\ last' = <<"handleLogout">>
    \/ (\E v \in DraftTexts : setInput(v)) /\ last' = <<"setInput">>
    \/ (\E v \in DraftNotes : setNotes(v)) /\ last' = <<"setNotes">>
    \/ (\E v \in Dates \cup {<<>>} : setSelectedDate(v)) /\ last' = <<"setSelectedDate">>
    \/ addTodo /\ last' = <<"addTodo">>
    \/ (\E i \in DOMAIN todos : toggleTodo(i)) /\ last' = <<"toggleTodo">>
    \/ (\E i \in DOMAIN todos : deleteTodo(i)) /\ last' = <<"deleteTodo">>
    \/ (\E i \in DOMAIN todos : startEdit(i)) /\ last' = <<"startEdit">>
    \/ cancelEdit /\ last' = <<"cancelEdit">>
    \/ \E i \in DOMAIN todos, text \in EditTexts, nts \in EditNotes,
          priority \in EditPriorities :
          /\ clickSave(i, text, nts, priority)
          /\ last' = (IF SaveDisabled(text) THEN <<"saveDisabled">>
                                            ELSE <<"updateTodo">>)
    \/ (\E i \in DOMAIN todos, d \in Dates : moveTodo(i, d)) /\ last' = <<"moveTodo">>
    \/ clearCompleted /\ last' = <<"clearCompleted">>
    \/ addTodoLocal /\ last' = <<"addTodo">>
    \/ (\E i \in DOMAIN todos : toggleTodoLocal(i)) /\ last' = <<"toggleTodo">>
    \/ (\E i \in DOMAIN todos : deleteTodoLocal(i)) /\ last' = <<"deleteTodo">>
    \/ clearCompletedLocal /\ last' = <<"clearCompleted">>
    \/ (\E i \in DOMAIN calls, fail \in BOOLEAN : Serve(i, fail)) /\ last' = <<"serve">>
    \/ \E i \in DOMAIN calls :
          Respond(i) /\ last' = <<"respond", calls[i].kind, calls[i].phase>>
    \/ Reload /\ last' = <<"reload">>
    \/ (\E v \in Filters : setFilter(v)) /\ last' = <<"setFilter">>

Spec == Init /\ [][Next]_vars

\* ------------------------------------------------ the date helpers alone
\* The local planner on an empty store; addDays and weekStrip are called
\* with a date and an offset.
InitDays ==
    /\ probe \in [base : ProbeDates, offset : 0..MaxOffset,
                  out : {<<>>}, strip : {<<>>}]
    /\ mode = "local"
    /\ sessionUserId = NULL
    /\ todos = <<>>
    /\ input = Empty
    /\ notes = Empty
    /\ selectedDate = Today
    /\ authMessage = NULL
    /\ editingId = NoId
    /\ filter = "all"
    /\ backend = {}
    /\ storage = Stringify(<<>>)
    /\ calls = <<>>
    /\ nextId = FirstFreshId
    /\ clock = FirstFreshId - 1
    /\ nops = 0
    /\ loaded = FALSE
    /\ removed = {}
    /\ tg = NoTg
    /\ last = <<"init">>
    /\ crashed = FALSE
    /\ AuthFormEmpty
    /\ ResetPageClosed

callAddDays ==
    /\ probe.out = <<>>
    /\ probe' = [probe EXCEPT !.out = addDays(probe.base, probe.offset)]
    /\ UNCHANGED pageVars

renderWeekStrip ==
    /\ probe.strip = <<>>
    /\ probe' = [probe EXCEPT !.strip = weekStrip(probe.base)]
    /\ UNCHANGED pageVars

NextDays == callAddDays \/ renderWeekStrip

SpecDays == InitDays /\ [][NextDays]_vars

TypeOK ==
    /\ mode \in Modes
    /\ nops \in 0..MaxOps
    /\ Len(calls) <= MaxCalls

\* =====================================================================
\* Claims
\* =====================================================================
Quiet == mode = "production" /\ loaded /\ calls = <<>>

MutatingKinds == {"add", "toggle", "edit", "move", "remove", "clear"}

\* The ids an operation is about.
Targets(c) ==
    IF c.kind = "clear" THEN c.ids
    ELSE IF c.kind = "add" THEN {}
    ELSE {c.id}

Among(s, T) == {t \in Range(s) : t.id \in T}
Besides(s, T) == {t \in Range(s) : t.id \notin T}

\* The trimmed text: from the first to the last character that is no blank.
Strip(s) ==
    LET solid == {i \in DOMAIN s : s[i] # " "}
    IN  IF solid = {} THEN <<>>
        ELSE SubSeq(s, CHOOSE i \in solid : \A j \in solid : i <= j,
                       CHOOSE i \in solid : \A j \in solid : j <= i)

\* The collection restricted to completed = false, order kept.
RECURSIVE OpenOnly(_)
OpenOnly(s) ==
    IF s = <<>> THEN <<>>
    ELSE IF Head(s).completed THEN OpenOnly(Tail(s))
    ELSE <<Head(s)>> \o OpenOnly(Tail(s))

\* What a reload of the collection would read now.
ReloadIds ==
    IF mode = "production" THEN {r.id : r \in backend}
    ELSE IF Parseable(storage) THEN Ids(Parse(storage))
    ELSE {}

\* The completed flags memory and the store hold for an id.
FlagsInMemory(id) == {t.completed : t \in Among(todos, {id})}
FlagsInStore(id) ==
    IF mode = "production" THEN {r.completed : r \in {q \in backend : q.id = id}}
    ELSE {t.completed : t \in Among(Parse(storage), {id})}

\* C1 (as claimed): in the cloud planner, starting from a successfully
\* loaded collection, whenever no backend call is outstanding the in-memory
\* collection contains every record the backend still holds for the owner.
C1_MemoryHoldsEveryBackendRecord ==
    Quiet => \A r \in Visible(sessionUserId) : r.id \in Ids(todos)

\* C2 (as claimed): when the response of a mutating operation of the
\* signed-in owner is handled, a failed operation leaves none of its
\* optimistic changes behind and nothing else changed (what it removed is
\* back, every other record is as it was just before the response), and a
\* successful one leaves the collection holding what the backend confirmed
\* (the inserted row is there, the updated row is there if the record still
\* is, the deleted ids are not).
C2_AfterFailure(c) ==
    /\ Besides(todos', Targets(c)) = Besides(todos, Targets(c))
    /\ c.kind \in {"remove", "clear"} =>
          Among(c.prev, Targets(c)) \subseteq Range(todos')
    /\ c.kind \in {"add", "toggle", "edit", "move"} => todos' = todos

C2_AfterSuccess(c) ==
    CASE c.kind \in {"remove", "clear"} -> Targets(c) \cap Ids(todos') = {}
      [] c.kind = "add" -> c.res \in Range(todos')
      [] OTHER -> c.id \in Ids(todos) => c.res \in Range(todos')

C3_FailedToggleRestoresAndReports ==
    [][\A i \in DOMAIN calls :
          (Respond(i) /\ calls[i].kind = "toggle" /\ calls[i].phase = "error") =>
              /\ \A t \in Among(todos', {calls[i].id}) :
                    t.completed = ~calls[i].req.completed
              /\ authMessage' \notin {NULL, MsgSignIn}]_vars

\* C4 (as claimed): two invocations of toggleComplete on a task, both
\* accepted by the store and both resolved, leave its completed flag in
\* memory and in the store equal to the original value - also when the
\* second is started before the first has resolved.
C4_DoubleToggleRestores ==
    (tg.n = 2 /\ calls = <<>>) =>
        /\ FlagsInMemory(tg.id) = {tg.orig}
        /\ FlagsInStore(tg.id) = {tg.orig}

\* C5: clearCompleted leaves in memory exactly the prior collection
\* restricted to completed = false, in the same order and with the same
\* fields, whether 0, 1, some or all tasks are completed; the store's
\* confirmation of the bulk delete changes nothing further.
C5_ClearRemovesExactlyCompleted ==
    [][/\ (clearCompleted \/ clearCompletedLocal) => todos' = OpenOnly(todos)
       /\ \A i \in DOMAIN calls :
             (Respond(i) /\ calls[i].kind = "clear" /\ calls[i].phase = "ok") =>
                 todos' = todos]_vars

C5_Witness ==
    /\ last = <<"respond", "clear", "ok">>
    /\ todos # <<>>
    /\ \A t \in Range(todos) : ~t.completed

\* C6: in the cloud planner clearCompleted issues one bulk delete for the
\* ids completed at call time; when that delete fails, every task it
\* removed is back in memory and the tasks that were not completed are
\* still there.
C6_FailedClearReinstatesAll ==
    [][/\ (clearCompleted /\ mode = "production"
             /\ \E t \in Range(todos) : t.completed) =>
             /\ Len(calls') = Len(calls) + 1
             /\ calls'[Len(calls')].kind = "clear"
             /\ calls'[Len(calls')].phase = "sent"
             /\ calls'[Len(calls')].ids = {t.id : t \in {u \in Range(todos) : u.completed}}
             /\ calls'[Len(calls')].prev = todos
       /\ \A i \in DOMAIN calls :
             (Respond(i) /\ calls[i].kind = "clear" /\ calls[i].phase = "error") =>
                 Range(calls[i].prev) \subseteq Range(todos')]_vars

C6_Witness ==
    /\ last = <<"respond", "clear", "error">>
    /\ \E t \in Range(todos) : t.completed
    /\ \E t \in Range(todos) : ~t.completed

\* C7: with a draft that is non-empty after trimming, an owner set and the
\* insert accepted, add puts exactly one record at the head of the
\* collection: its text is the trimmed draft, its date the selected date,
\* completed is false, in the cloud planner the row is the one the backend
\* returned; the records already there are unchanged and the draft text and
\* notes are cleared.
C7_Request(req) ==
    /\ req.text = Strip(input)
    /\ req.date = (IF selectedDate = <<>> THEN Today ELSE selectedDate)
    /\ req.completed = FALSE

C7_AddPrependsOne ==
    [][/\ (addTodo /\ mode = "production" /\ sessionUserId # NULL
             /\ Strip(input) # <<>>) =>
             /\ Len(calls') = Len(calls) + 1
             /\ calls'[Len(calls')].kind = "add"
             /\ C7_Request(calls'[Len(calls')].req)
       /\ \A i \in DOMAIN calls :
             (Respond(i) /\ calls[i].kind = "add" /\ calls[i].phase = "ok") =>
                 /\ todos' = <<calls[i].res>> \o todos
                 /\ calls[i].res.text = calls[i].req.text
                 /\ calls[i].res.date = calls[i].req.date
                 /\ calls[i].res.completed = FALSE
                 /\ input' = Empty /\ notes' = Empty
       /\ (/\ \/ addTodo /\ mode = "development" /\ sessionUserId # NULL
              \/ addTodoLocal
           /\ Strip(input) # <<>>) =>
             /\ Len(todos') = Len(todos) + 1
             /\ Tail(todos') = todos
             /\ C7_Request(Head(todos'))
             /\ input' = Empty /\ notes' = Empty]_vars

C7_Witness ==
    /\ last = <<"respond", "add", "ok">>
    /\ Len(todos) > 1
    /\ todos[1].text = TextA
    /\ todos[1].id >= FirstFreshId
    /\ input = Empty

\* C8 (as claimed): add with an empty or whitespace-only draft changes
\* nothing in any variant and any authentication state: not the collection,
\* the draft, the store, the outstanding calls or the user-visible message.
C8_BlankAddIsSilent ==
    [][((addTodo \/ addTodoLocal) /\ Strip(input) = <<>>) =>
          UNCHANGED <<todos, input, notes, storage, backend, calls, authMessage>>]_vars

\* C8 (amended): the same, except that in the cloud planner with no owner
\* identifier set the sign-in message is shown.
C8_BlankAddIsSilentWhenSignedIn ==
    [][((addTodo \/ addTodoLocal) /\ Strip(input) = <<>>) =>
          /\ UNCHANGED <<todos, input, notes, storage, backend, calls>>
          /\ IF mode # "local" /\ sessionUserId = NULL
             THEN authMessage' = MsgSignIn
             ELSE authMessage' = authMessage]_vars

C8_Witness ==
    /\ last = <<"addTodo">>
    /\ input = Blank
    /\ mode = "local" \/ sessionUserId # NULL

\* C9: in the cloud planner add invoked with no owner identifier set is
\* refused: no backend insert is issued, local storage is not written, the
\* collection and the draft fields are unchanged, and the sign-in message is
\* shown.
C9_AddWithoutOwnerIsRefused ==
    [][(addTodo /\ sessionUserId = NULL) =>
          /\ UNCHANGED <<todos, input, notes, storage, backend, calls>>
          /\ authMessage' = MsgSignIn]_vars

C9_Witness ==
    /\ last = <<"addTodo">>
    /\ sessionUserId = NULL
    /\ mode \in {"production", "development"}
    /\ Strip(input) # <<>>
    /\ authMessage = MsgSignIn

\* C10 (as claimed): once remove(id) has run, a reload returns no record
\* with that id.
C10_RemovedNeverReloaded ==
    \A r \in removed : r.id \notin ReloadIds

\* C10 (amended): once remove(id) has run and, in the cloud planner, its
\* backend delete was sent under the session of the record's owner and came
\* back without error, a reload returns no record with that id (until a
\* later add of the local planner is given the same clock reading as id).
C10_ConfirmedRemovedNeverReloaded ==
    \A r \in removed : (r.ok /\ r.own) => r.id \notin ReloadIds

C10_Witness ==
    /\ last = <<"reload">>
    /\ \E r \in removed : r.ok /\ r.own
    /\ todos # <<>>

\* The call a handler has just issued.
Issued == calls'[Len(calls')]

\* C11: in the cloud planner signing out - the log-out action or a
\* session-change notification without session - leaves the in-memory
\* collection empty whatever it held, and writes nothing to the backend or
\* to local storage: the log-out of production issues the sign-out call and
\* nothing else, and empties the collection when that call is back.
C11_SignOutEmptiesWithoutWriting ==
    [][/\ (handleLogout /\ mode = "development") =>
             todos' = <<>> /\ UNCHANGED <<storage, backend, calls>>
       /\ (handleLogout /\ mode = "production") =>
             /\ Len(calls') = Len(calls) + 1
             /\ Issued.kind = "signOut"
             /\ UNCHANGED <<storage, backend>>
       /\ AuthStateChange(NULL) =>
             /\ todos' = <<>>
             /\ Len(calls') = Len(calls)
             /\ UNCHANGED <<storage, backend>>
       /\ \A i \in DOMAIN calls :
             /\ (Serve(i, FALSE) /\ calls[i].kind = "signOut") =>
                   UNCHANGED <<storage, backend>>
             /\ (Respond(i) /\ calls[i].kind = "signOut") =>
                   todos' = <<>> /\ UNCHANGED <<storage, backend>>]_vars

C11_Witness ==
    /\ last = <<"respond", "signOut", "ok">>
    /\ todos = <<>>
    /\ Cardinality(Visible("u1")) = 2
    /\ storage = NoItem

\* C12 (as claimed): the log-out action leaves the owner identifier absent
\* when it is over, also when the remote sign-out has failed and no
\* session-change notification was delivered.
C12_LogoutClearsOwner ==
    [][/\ (handleLogout /\ mode = "development") => sessionUserId' = NULL
       /\ \A i \in DOMAIN calls :
             (Respond(i) /\ calls[i].kind = "signOut"
                /\ calls[i].phase = "error") =>
                 sessionUserId' = NULL]_vars

\* The members of all groups, one group after the other.
RECURSIVE Members(_)
Members(g) == IF g = <<>> THEN <<>> ELSE Head(g)[2] \o Members(Tail(g))

Times(s, t) == Cardinality({i \in DOMAIN s : s[i] = t})

\* C13: groupedByDate is a partition of the in-memory collection: every
\* member of a group has the group's key as its date, no key repeats, no
\* group is empty, and every task is a member as often as it is in the
\* collection - once, in the one group of its date.
C13_GroupsPartitionTheCollection ==
    LET g == groupedByDate
    IN  /\ \A i \in DOMAIN g :
              /\ g[i][2] # <<>>
              /\ \A t \in Range(g[i][2]) : t.date = g[i][1]
        /\ \A i, j \in DOMAIN g : i # j => g[i][1] # g[j][1]
        /\ Len(Members(g)) = Len(todos)
        /\ \A t \in Range(todos) : Times(Members(g), t) = Times(todos, t)

C13_Witness ==
    /\ Len(groupedByDate) = 2
    /\ \E i \in DOMAIN groupedByDate : Len(groupedByDate[i][2]) = 2
    /\ Len(todos) = 3

\* C14: in every state remainingCount is the number of tasks of the
\* in-memory collection whose date is the selected date and whose completed
\* flag is false.
C14_RemainingCountIsDerived ==
    remainingCount =
        Cardinality({i \in DOMAIN todos :
                        todos[i].date = selectedDate /\ ~todos[i].completed})

C14_Witness ==
    /\ Len(todos) = 3
    /\ \A i \in DOMAIN todos : todos[i].date = D1
    /\ selectedDate = D1
    /\ [i \in DOMAIN todos |-> todos[i].completed] = <<FALSE, TRUE, FALSE>>
    /\ remainingCount = 2

\* The calendar, day by day.
DaysIn(y, m) ==
    IF m \in {4, 6, 9, 11} THEN 30
    ELSE IF m # 2 THEN 31
    ELSE IF y % 400 = 0 \/ (y % 4 = 0 /\ y % 100 # 0) THEN 29
    ELSE 28

NextDay(dt) ==
    IF dt[3] < DaysIn(dt[1], dt[2]) THEN <<dt[1], dt[2], dt[3] + 1>>
    ELSE IF dt[2] < 12 THEN <<dt[1], dt[2] + 1, 1>>
    ELSE <<dt[1] + 1, 1, 1>>

RECURSIVE DaysLater(_, _)
DaysLater(dt, n) == IF n = 0 THEN dt ELSE DaysLater(NextDay(dt), n - 1)

Wanted(t) ==
    \/ filter = "all"
    \/ filter = "active" /\ ~t.completed
    \/ filter = "completed" /\ t.completed

\* C16 (as claimed): in both planners the tasks listed in a date card are
\* exactly the members of the group that satisfy the active filter, newest
\* first by creation time.
C16_ShownItemsAreFilteredNewestFirst ==
    \A i \in DOMAIN groupedByDate :
        LET items == groupedByDate[i][2]
            shown == shownItems(items)
        IN  /\ Range(shown) = {t \in Range(items) : Wanted(t)}
            /\ Len(shown) = Cardinality({j \in DOMAIN items : Wanted(items[j])})
            /\ \A j \in 1..(Len(shown) - 1) :
                  CreatedAt(shown[j]) >= CreatedAt(shown[j + 1])

\* C17: in the cloud planner an edit whose text is empty after trimming is
\* not carried out: no backend update is issued, nothing is written to
\* local storage, the in-memory collection is unchanged and edit mode is
\* kept.
C17_BlankEditIsRefused ==
    [][\A i \in DOMAIN todos, text \in EditTexts, nts \in EditNotes,
          priority \in EditPriorities :
          (clickSave(i, text, nts, priority) /\ Strip(text) = <<>>) =>
              UNCHANGED <<todos, calls, storage, backend, editingId>>]_vars

C17_Witness ==
    /\ last = <<"saveDisabled">>
    /\ editingId # NoId
    /\ editingId \in Ids(todos)

\* The collection with the record of this id replaced, everything else in
\* place.
WithRecord(s, id, row) == [j \in DOMAIN s |-> IF s[j].id = id THEN row ELSE s[j]]

\* C18: in the cloud planner an edit issues one backend update that carries
\* text, notes and priority together; when it succeeds the record of that id
\* becomes the row the backend returned, every other record stays as and
\* where it was, and edit mode is left; when it fails the collection is
\* unchanged and edit mode is kept.  In dev mode the three fields are
\* written at once and edit mode is left.
C18_EditIsOneUpdate ==
    [][/\ \A i \in DOMAIN todos, text \in EditTexts, nts \in EditNotes,
             priority \in EditPriorities :
             /\ (updateTodo(i, text, nts, priority) /\ mode = "production") =>
                   /\ Len(calls') = Len(calls) + 1
                   /\ SubSeq(calls', 1, Len(calls)) = Overlapped(calls)
                   /\ Issued.kind = "edit"
                   /\ Issued.id = todos[i].id
                   /\ Issued.req = [text |-> text, priority |-> priority,
                                    notes |-> IF Strip(nts) = <<>> THEN NoNotes
                                                                  ELSE Strip(nts)]
                   /\ UNCHANGED <<todos, editingId, storage>>
             /\ (updateTodo(i, text, nts, priority) /\ mode = "development") =>
                   /\ Len(todos') = Len(todos)
                   /\ \A j \in DOMAIN todos :
                         IF todos[j].id = todos[i].id
                         THEN todos'[j] = [todos[j] EXCEPT
                                  !.text = text, !.priority = priority,
                                  !.notes = IF Strip(nts) = <<>> THEN NoNotes
                                                                ELSE Strip(nts)]
                         ELSE todos'[j] = todos[j]
                   /\ editingId' = NoId
       /\ \A k \in DOMAIN calls :
             (Respond(k) /\ calls[k].kind = "edit") =>
                 IF calls[k].phase = "ok"
                 THEN /\ todos' = WithRecord(todos, calls[k].id, calls[k].res)
                      /\ editingId' = NoId
                 ELSE UNCHANGED <<todos, editingId>>]_vars

C18_Witness ==
    /\ last = <<"respond", "edit", "ok">>
    /\ editingId = NoId
    /\ \E t \in Range(todos) : t.id = 1 /\ t.text = TextB /\ t.priority = "high"
    /\ \E t \in Range(todos) : t = R2

\* C19: a move changes only the date of the task with that id: the patch
\* sent to the backend holds the date alone, the store changes nothing but
\* the date of that row, and on success the record in memory becomes the
\* confirmed row while every other record stays as and where it was; a
\* failed move leaves the collection as it was.  In dev mode the date of the
\* record is the only thing that changes.
C19_MoveChangesOnlyTheDate ==
    [][/\ \A i \in DOMAIN todos, d \in Dates :
             /\ (moveTodo(i, d) /\ mode = "production") =>
                   /\ Issued.kind = "move"
                   /\ Issued.id = todos[i].id
                   /\ Issued.req = [date |-> d]
                   /\ UNCHANGED <<todos, storage>>
             /\ (moveTodo(i, d) /\ mode = "development") =>
                   todos' = [j \in DOMAIN todos |->
                                IF todos[j].id = todos[i].id
                                THEN [todos[j] EXCEPT !.date = d]
                                ELSE todos[j]]
       /\ \A k \in DOMAIN calls :
             /\ (Serve(k, FALSE) /\ calls[k].kind = "move"
                   /\ calls'[k].phase = "ok") =>
                   /\ \E old \in backend :
                         /\ old.id = calls[k].id
                         /\ calls'[k].res = [old EXCEPT !.date = calls[k].req.date]
                         /\ backend' = (backend \ {old}) \cup {calls'[k].res}
             /\ (Respond(k) /\ calls[k].kind = "move") =>
                   IF calls[k].phase = "ok"
                   THEN todos' = WithRecord(todos, calls[k].id, calls[k].res)
                   ELSE todos' = todos]_vars

C19_Witness ==
    /\ last = <<"respond", "move", "ok">>
    /\ \E t \in Range(todos) : t = [R2 EXCEPT !.date = D1]
    /\ \E t \in Range(todos) : t = R1

\* C20 (as claimed): in the cloud planner at most one mutating backend call
\* (toggle, edit, move or remove) per record id is outstanding at any time.
C20_OneMutationPerRecord ==
    \A i, j \in DOMAIN calls :
        (/\ i < j
         /\ calls[i].kind \in {"toggle", "edit", "move", "remove"}
         /\ calls[j].kind \in {"toggle", "edit", "move", "remove"}) =>
            calls[i].id # calls[j].id

\* ---------------------------------------------------------------- C21
Mutations == {<<"addTodo">>, <<"toggleTodo">>, <<"deleteTodo">>, <<"updateTodo">>,
              <<"moveTodo">>, <<"clearCompleted">>}

\* C21: in the variants that persist to local storage, every add, toggle,
\* edit, move, remove and clearCompleted that changes the collection leaves
\* under the key a value that reads back as the whole collection as of that
\* mutation, and between two loads of the page the collection changes by these
\* operations (and by the log-out) only, never by a read of the store.
C21_StoreFollowsEveryMutation ==
    [][mode # "production" =>
         /\ (last' \in Mutations /\ todos' # todos)
               => Parseable(storage') /\ Parse(storage') = todos'
         /\ todos' # todos
               => last' \in Mutations \cup {<<"reload">>, <<"handleLogout">>}
         /\ storage' # storage => Parse(storage') = todos']_vars

C21_Witness ==
    /\ mode = "development"
    /\ last = <<"toggleTodo">>
    /\ nops = 2
    /\ Len(todos) = 2
    /\ Parse(storage) = todos

\* ---------------------------------------------------------------- C22
\* C22: when the value found under the storage key at a page load is absent,
\* malformed JSON or well-formed JSON that is not an array, the planner starts
\* with an empty collection, shows no error and is on the screen, ready for an
\* add.
C22_UnreadableStoreStartsEmpty ==
    (mode # "production" /\ last \in {<<"init">>, <<"reload">>}
       /\ storage.tag # "array")
        => todos = <<>> /\ authMessage = NULL /\ Mounted

\* =====================================================================
\* The sign-in form of page.tsx (production)
\* =====================================================================
Mail == <<"a", "@", "b", ".", "c">>
PaddedMail == <<" ">> \o Mail \o <<" ">>
NoAt == <<"a", "b", ".", "c">>
NoDot == <<"a", "@", "b">>
DotLast == <<"a", "@", "b", ".">>
InnerSpace == <<"a", " ", "@", "b", ".", "c">>
Identifiers == {Empty, Blank, Mail, PaddedMail, NoAt, NoDot, DotLast, InnerSpace}

Secret8 == <<"p", "a", "s", "s", "w", "o", "r", "d">>
Secret7 == SubSeq(Secret8, 1, Len(Secret8) - 1)
PaddedSecret7 == <<" ">> \o Secret7 \o <<" ">>
Secrets == {Empty, Secret7, PaddedSecret7, Secret8}
Usernames == {Empty, TextA}

MsgEnterBoth == "Please enter both email and password."
MsgFillAll == "Please fill in all fields."
MsgInvalidEmail == "Please enter a valid email address."
MsgShortPassword == "Password must be at least 8 characters."
MsgLoggedIn == "Logged in successfully!"
MsgAccountCreated == "Account created! You can now log in with your email and password."
MsgAuthError == "error.message"
MinPasswordLength == 8

\* [^\s@]+ matched against the whole of s
NotSpaceOrAt(s) == s # <<>> /\ \A k \in DOMAIN s : s[k] \notin {" ", "@"}

\* A test that every text passes.
emailRegexTest_Anything(s) == TRUE

\* /^[^\s@]+@[^\s@]+\.[^\s@]+$/.test(s)  (page.tsx:180-181, 217-218)
emailRegexTest(s) ==
    \E i, j \in DOMAIN s :
        /\ i < j
        /\ s[i] = "@"
        /\ s[j] = "."
        /\ NotSpaceOrAt(SubSeq(s, 1, i - 1))
        /\ NotSpaceOrAt(SubSeq(s, i + 1, j - 1))
        /\ NotSpaceOrAt(SubSeq(s, j + 1, Len(s)))

\* handleLogin (page.tsx:173-199), up to its await
handleLogin ==
    /\ mode = "production"
    /\ Mounted /\ Budget
    /\ authMode = "login"
    /\ IF Trim(authUsername) = <<>> \/ Trim(authPassword) = <<>>
       THEN authMessage' = MsgEnterBoth /\ UNCHANGED <<calls, authLoading>>
       ELSE IF ~emailRegexTest(Trim(authUsername))
       THEN authMessage' = MsgInvalidEmail /\ UNCHANGED <<calls, authLoading>>
       ELSE IF Len(Trim(authPassword)) < MinPasswordLength
       THEN authMessage' = MsgShortPassword /\ UNCHANGED <<calls, authLoading>>
       ELSE /\ Room
            /\ authLoading' = TRUE
            /\ authMessage' = NULL
            /\ calls' = Append(calls,
                   Call("signIn", sessionUserId, NoId, {},
                        [email |-> Trim(authUsername),
                         password |-> Trim(authPassword)], <<>>))
    /\ UNCHANGED <<authMode, authUsername, authEmail, authPassword>>
    /\ UNCHANGED <<probe, crashed, resetVars, filter, mode, sessionUserId, todos, input,
                   notes, selectedDate, editingId, backend, storage, nextId, clock,
                   loaded, removed, tg>>

\* handleSignUp (page.tsx:210-240), up to its await
handleSignUp ==
    /\ mode = "production"
    /\ Mounted /\ Budget
    /\ authMode = "signup"
    /\ IF Trim(authUsername) = <<>> \/ Trim(authEmail) = <<>> \/ Trim(authPassword) = <<>>
       THEN authMessage' = MsgFillAll /\ UNCHANGED <<calls, authLoading>>
       ELSE IF ~emailRegexTest(Trim(authEmail))
       THEN authMessage' = MsgInvalidEmail /\ UNCHANGED <<calls, authLoading>>
       ELSE IF Len(Trim(authPassword)) < MinPasswordLength
       THEN authMessage' = MsgShortPassword /\ UNCHANGED <<calls, authLoading>>
       ELSE /\ Room
            /\ authLoading' = TRUE
            /\ authMessage' = NULL
            /\ calls' = Append(calls,
                   Call("signUp", sessionUserId, NoId, {},
                        [email |-> Trim(authEmail),
                         password |-> Trim(authPassword),
                         username |-> Trim(authUsername)], <<>>))
    /\ UNCHANGED <<authMode, authUsername, authEmail, authPassword>>
    /\ UNCHANGED <<probe, crashed, resetVars, filter, mode, sessionUserId, todos, input,
                   notes, selectedDate, editingId, backend, storage, nextId, clock,
                   loaded, removed, tg>>

\* The identity service accepts or refuses a sign-in or a sign-up.
serveAuth(i, fail) ==
    /\ mode = "production"
    /\ i \in DOMAIN calls
    /\ calls[i].kind \in {"signIn", "signUp"}
    /\ calls[i].phase = "sent"
    /\ calls' = [calls EXCEPT ![i].phase = IF fail THEN "error" ELSE "ok"]
    /\ UNCHANGED <<probe, crashed, authVars, resetVars, filter, mode, sessionUserId, todos,
                   input, notes, selectedDate, authMessage, editingId, backend, storage,
                   nextId, clock, nops, loaded, removed, tg>>

\* handleLogin (page.tsx:201-207) and handleSignUp (page.tsx:242-251) after
\* their await
respondAuth(i) ==
    /\ mode = "production"
    /\ i \in DOMAIN calls
    /\ calls[i].kind \in {"signIn", "signUp"}
    /\ calls[i].phase # "sent"
    /\ calls' = Without(calls, i)
    /\ IF calls[i].phase = "error"
       THEN /\ authMessage' = MsgAuthError
            /\ UNCHANGED <<authPassword, authMode>>
       ELSE /\ authMessage' = (IF calls[i].kind = "signIn" THEN MsgLoggedIn
                                                           ELSE MsgAccountCreated)
            /\ authMode' = "login"
            /\ authPassword' = Empty
    /\ authLoading' = FALSE
    /\ UNCHANGED <<authUsername, authEmail>>
    /\ UNCHANGED <<probe, crashed, resetVars, filter, mode, sessionUserId, todos, input,
                   notes, selectedDate, editingId, backend, storage, nextId, clock, nops,
                   loaded, removed, tg>>

\* The cloud planner, signed out, with the form filled in.
InitAuth ==
    /\ mode = "production"
    /\ sessionUserId = NULL
    /\ todos = <<>>
    /\ input = Empty
    /\ notes = Empty
    /\ selectedDate = Today
    /\ authMessage = NULL
    /\ editingId = NoId
    /\ filter = "all"
    /\ backend \in InitTables
    /\ storage = NoItem
    /\ calls = <<>>
    /\ nextId = FirstFreshId
    /\ clock = FirstFreshId - 1
    /\ nops = 0
    /\ loaded = FALSE
    /\ removed = {}
    /\ tg = NoTg
    /\ last = <<"init">>
    /\ probe = NoProbe
    /\ crashed = FALSE
    /\ ResetPageClosed
    /\ authLoading = FALSE
    /\ authPassword \in Secrets
    /\ \/ /\ authMode = "login"
          /\ authUsername \in Identifiers
          /\ authEmail = Empty
       \/ /\ authMode = "signup"
          /\ authUsername \in Usernames
          /\ authEmail \in Identifiers

NextAuth ==
    \/ handleLogin /\ last' = <<"handleLogin">>
    \/ handleSignUp /\ last' = <<"handleSignUp">>
    \/ (\E i \in DOMAIN calls, fail \in BOOLEAN : serveAuth(i, fail)) /\ last' = <<"serve">>
    \/ \E i \in DOMAIN calls :
          respondAuth(i) /\ last' = <<"respond", calls[i].kind, calls[i].phase>>
    \/ (\E s \in SessionUsers \cup {NULL} : AuthStateChange(s))
          /\ last' = <<"authStateChange">>

SpecAuth == InitAuth /\ [][NextAuth]_vars

\* ---------------------------------------------------------------- C23
Count(s, ch) == Cardinality({k \in DOMAIN s : s[k] = ch})

\* One "@" with something before it, no white space, and after the "@" a "."
\* that is neither the first nor the last character.
ValidEmail(s) ==
    /\ Count(s, "@") = 1
    /\ Count(s, " ") = 0
    /\ LET at == CHOOSE k \in DOMAIN s : s[k] = "@"
       IN  /\ at > 1
           /\ \E k \in (at + 2)..(Len(s) - 1) : s[k] = "."

ValidationMessages == {MsgEnterBoth, MsgFillAll, MsgInvalidEmail, MsgShortPassword}

C23_Refused ==
    /\ calls' = calls
    /\ authMessage' \in ValidationMessages
    /\ sessionUserId' = sessionUserId
    /\ todos' = todos
    /\ backend' = backend

\* C23: a sign-in whose identifier (surrounding white space aside) is not a
\* syntactically valid email, or whose secret is shorter than 8 characters,
\* ends with a validation message, issues no call to the identity service and
\* leaves the owner identifier and the collection as they were; a sign-up
\* validates its email and its secret in the same way.
C23_InvalidCredentialsAreRefusedLocally ==
    [][/\ (last' = <<"handleLogin">>
             /\ (~ValidEmail(Trim(authUsername)) \/ Len(authPassword) < 8))
           => C23_Refused
       /\ (last' = <<"handleSignUp">>
             /\ (~ValidEmail(Trim(authEmail)) \/ Len(authPassword) < 8))
           => C23_Refused]_vars

C23_Witness ==
    /\ last = <<"handleLogin">>
    /\ authUsername = DotLast
    /\ authPassword = Secret8
    /\ authMessage = MsgInvalidEmail
    /\ calls = <<>>

\* =====================================================================
\* The reset-password page (src/unnamed/part_000)
\* =====================================================================
Secret6 == SubSeq(Secret8, 1, Len(Secret8) - 2)
Secret5 == SubSeq(Secret8, 1, Len(Secret8) - 3)
Other6 == <<"s", "e", "c", "r", "e", "t">>
ResetSecrets == {Empty, Secret5, Secret6, Other6}

MsgInvalidLink == "Invalid or expired reset link. Please request a new one."
MsgNoMatch == "Passwords do not match"
MsgShortNewPassword == "Password must be at least 6 characters"
MsgPasswordUpdated == "Password updated successfully! Redirecting..."
MinNewPasswordLength == 6

\* The inputs and the button are disabled with loading || !!message
\* (part_000:88, 103, 109-114); Enter in the confirmation field calls the
\* handler whatever the fields hold (part_000:102).
FormDisabled == loading \/ message # NULL

\* onChange of the two fields (part_000:87, 101)
setNewPassword(v) ==
    /\ ~FormDisabled
    /\ newPassword' = v
    /\ UNCHANGED <<confirmPassword, message, loading, error, recovery, checked>>
    /\ UNCHANGED <<pageVarsOfHome, nops>>

setConfirmPassword(v) ==
    /\ ~FormDisabled
    /\ confirmPassword' = v
    /\ UNCHANGED <<newPassword, message, loading, error, recovery, checked>>
    /\ UNCHANGED <<pageVarsOfHome, nops>>

\* supabase.auth.getSession().then(...) of the mount effect (part_000:15-22)
sessionChecked ==
    /\ ~checked
    /\ checked' = TRUE
    /\ error' = (IF recovery THEN error ELSE MsgInvalidLink)
    /\ UNCHANGED <<newPassword, confirmPassword, message, loading, recovery>>
    /\ UNCHANGED <<pageVarsOfHome, nops>>

\* handleUpdatePassword (part_000:24-39), up to its await
handleUpdatePassword ==
    /\ ~FormDisabled
    /\ Budget
    /\ IF newPassword # confirmPassword
       THEN error' = MsgNoMatch /\ UNCHANGED <<loading, calls>>
       ELSE IF Len(newPassword) < MinNewPasswordLength
       THEN error' = MsgShortNewPassword /\ UNCHANGED <<loading, calls>>
       ELSE /\ Room
            /\ loading' = TRUE
            /\ error' = NULL
            /\ calls' = Append(calls,
                   Call("updateUser", NULL, NoId, {}, [password |-> newPassword], <<>>))
    /\ UNCHANGED <<newPassword, confirmPassword, message, recovery, checked>>
    /\ UNCHANGED <<probe, crashed, authVars, filter, mode, sessionUserId, todos, input,
                   notes, selectedDate, authMessage, editingId, backend, storage,
                   nextId, clock, loaded, removed, tg>>

\* The identity service changes the password of the session's user; without
\* a session it refuses.
serveUpdateUser(i, fail) ==
    /\ i \in DOMAIN calls
    /\ calls[i].kind = "updateUser"
    /\ calls[i].phase = "sent"
    /\ calls' = [calls EXCEPT ![i].phase = IF fail \/ ~recovery THEN "error" ELSE "ok"]
    /\ UNCHANGED resetVars
    /\ UNCHANGED <<probe, crashed, authVars, filter, mode, sessionUserId, todos, input,
                   notes, selectedDate, authMessage, editingId, backend, storage,
                   nextId, clock, nops, loaded, removed, tg>>

\* handleUpdatePassword after its await (part_000:41-50)
respondUpdateUser(i) ==
    /\ i \in DOMAIN calls
    /\ calls[i].kind = "updateUser"
    /\ calls[i].phase # "sent"
    /\ calls' = Without(calls, i)
    /\ IF calls[i].phase = "error"
       THEN /\ error' = MsgAuthError
            /\ loading' = FALSE
            /\ message' = message
       ELSE /\ message' = MsgPasswordUpdated
            /\ UNCHANGED <<error, loading>>
    /\ UNCHANGED <<newPassword, confirmPassword, recovery, checked>>
    /\ UNCHANGED <<probe, crashed, authVars, filter, mode, sessionUserId, todos, input,
                   notes, selectedDate, authMessage, editingId, backend, storage,
                   nextId, clock, nops, loaded, removed, tg>>

\* The reset-password page just opened from a link whose session exists or not.
InitReset ==
    /\ mode = "production"
    /\ sessionUserId = NULL
    /\ todos = <<>>
    /\ input = Empty
    /\ notes = Empty
    /\ selectedDate = Today
    /\ authMessage = NULL
    /\ editingId = NoId
    /\ filter = "all"
    /\ backend = {}
    /\ storage = NoItem
    /\ calls = <<>>
    /\ nextId = FirstFreshId
    /\ clock = FirstFreshId - 1
    /\ nops = 0
    /\ loaded = FALSE
    /\ removed = {}
    /\ tg = NoTg
    /\ last = <<"init">>
    /\ probe = NoProbe
    /\ crashed = FALSE
    /\ AuthFormEmpty
    /\ newPassword = Empty
    /\ confirmPassword = Empty
    /\ message = NULL
    /\ loading = FALSE
    /\ error = NULL
    /\ checked = FALSE
    /\ recovery \in BOOLEAN

NextReset ==
    \/ (\E v \in ResetSecrets : setNewPassword(v)) /\ last' = <<"setNewPassword">>
    \/ (\E v \in ResetSecrets : setConfirmPassword(v)) /\ last' = <<"setConfirmPassword">>
    \/ sessionChecked /\ last' = <<"sessionChecked">>
    \/ handleUpdatePassword /\ last' = <<"handleUpdatePassword">>
    \/ (\E i \in DOMAIN calls, fail \in BOOLEAN : serveUpdateUser(i, fail))
          /\ last' = <<"serve">>
    \/ \E i \in DOMAIN calls :
          respondUpdateUser(i) /\ last' = <<"respond", calls[i].kind, calls[i].phase>>

SpecReset == InitReset /\ [][NextReset]_vars

\* ---------------------------------------------------------------- C24
\* C24: once the page has found no session, handleUpdatePassword ends with an
\* error and issues no password-update call, however often it is invoked; with
\* a new password shorter than 6 characters or different from the
\* confirmation it ends with an error and issues no call either.
C24_NoSessionNoPasswordUpdate ==
    [][last' = <<"handleUpdatePassword">> =>
         /\ (checked /\ ~recovery)
               => calls' = calls /\ error' # NULL /\ message' = NULL
         /\ (Len(newPassword) < 6 \/ newPassword # confirmPassword)
               => calls' = calls /\ error' \in {MsgNoMatch, MsgShortNewPassword}]_vars

\* ---------------------------------------------------------------- C25
\* C25: in every variant, no two tasks of the in-memory collection share an id.
C25_IdsAreUnique ==
    \A i, j \in DOMAIN todos : i # j => todos[i].id # todos[j].id

\* ---------------------------------------------------------------- C26
\* A text with at least one character and no space at either end.
Tidy(s) == s # <<>> /\ s[1] # " " /\ s[Len(s)] # " "

\* C26: every task text held in memory, sent to the backend by an add or an
\* edit, or written to the local store is non-empty and has no leading or
\* trailing white space.
C26_TextsAreTrimmed ==
    /\ \A t \in Range(todos) : Tidy(t.text)
    /\ \A i \in DOMAIN calls :
          calls[i].kind \in {"add", "edit"} => Tidy(calls[i].req.text)
    /\ (Cloud /\ storage.tag = "array") => \A t \in Range(Parse(storage)) : Tidy(t.text)

\* ---------------------------------------------------------------- C27
\* C27: in the cloud planner, whenever no owner identifier is set and no
\* backend call is outstanding, the in-memory collection is empty.
C27_SignedOutMeansEmpty ==
    (mode = "production" /\ sessionUserId = NULL /\ calls = <<>>) => todos = <<>>

\* ---------------------------------------------------------------- C28
\* C28: in the cloud planner, whenever a user is signed in and no backend
\* call is outstanding, every task of the in-memory collection belongs to
\* that user.
C28_MemoryHoldsOnlyTheOwnersTasks ==
    (mode = "production" /\ sessionUserId # NULL /\ calls = <<>>)
        => \A t \in Range(todos) : t.user_id = sessionUserId

\* ---------------------------------------------------------------- C29
\* C29: in the cloud planner, the rollback after a failed remove or
\* clearCompleted puts back no record that the backend no longer holds, and
\* every record of memory that agreed with the backend before the rollback is
\* still in memory after it.
C29_RollbackKeepsConfirmedChanges ==
    [][\A i \in DOMAIN calls :
          (Respond(i) /\ calls[i].kind \in {"remove", "clear"}
             /\ calls[i].phase = "error")
            => /\ \A t \in Range(todos') :
                     t.id \notin Ids(todos) => \E r \in backend : r.id = t.id
               /\ \A t \in Range(todos) : t \in backend => t \in Range(todos')]_vars

\* ---------------------------------------------------------------- C30
\* C30: in the cloud planner, a record of the signed-in user that memory and
\* the backend both hold when the response of that user's load is applied (a
\* record whose add was confirmed while the load was in flight) is still in
\* memory afterwards.
C30_LoadKeepsConfirmedAdds ==
    [][\A i \in DOMAIN calls :
          (Respond(i) /\ calls[i].kind = "load" /\ calls[i].owner = sessionUserId)
            => \A t \in Range(todos) :
                  (t \in backend /\ t.user_id = sessionUserId) => t.id \in Ids(todos')]_vars

====
